---- MODULE Spec2Model ----
(***************************************************************************)
(* The Users/Tasks REST backend of src/routes/users.js and                 *)
(* src/routes/tasks.js over a document store.  One action per route        *)
(* handler; a handler runs from its first store call to its response.      *)
(* SpecConcurrent runs the task handlers one store call at a time, so that  *)
(* the calls of requests in flight interleave.                             *)
(***************************************************************************)
EXTENDS Integers, Sequences, FiniteSets, TLC

\* ---------------------------------------------------------------- bounds
MaxUsers == 2
MaxTasks == 1
MaxPending == 2
MaxProcs == 2

\* ------------------------------------------------------------ identifiers
\* Identifiers the store hands out, in the order it hands them out.
UserIdSeq == <<"u1", "u2", "u3", "u4">>
TaskIdSeq == <<"t1", "t2", "t3", "t4">>
\* A string the store cannot cast to its identifier type.
BadId == "bad"

Names == {"n"}
Emails == {"e1", "e2"}
\* A deadline string the store cannot cast to a date.
JunkDate == "junk"

\* procs: the task requests in flight, each at its next store call.
VARIABLES users, tasks, nextUser, nextTask, last, procs

vars == <<users, tasks, nextUser, nextTask, last, procs>>

\* ------------------------------------------------------------- responses
\* The envelope's data: <<kind, size>>.  [] is the array of no document.
EmptyData == <<"array", 0>>
DocData == <<"doc", 1>>
ListData(n) == <<"array", n>>
CountData(n) == <<"number", n>>

RespNullData(op, id, status, message, data) ==
    [op |-> op, id |-> id, status |-> status, message |-> message,
     data |-> IF status >= 400 THEN <<"null", 0>> ELSE data]

Resp(op, id, status, message, data) ==
    [op |-> op, id |-> id, status |-> status, message |-> message, data |-> data]

\* ----------------------------------------------------------------- store
\* A well-formed identifier: everything but the uncastable string.
Castable(id) == id # BadId

\* $push / $pull on a User's pendingTasks through findByIdAndUpdate: a User
\* that does not exist is left alone (the call resolves to null).
PullFirstOnly(seq, t) ==
    IF \E i \in 1..Len(seq) : seq[i] = t
    THEN LET k == CHOOSE i \in 1..Len(seq) :
                    seq[i] = t /\ \A j \in 1..(i - 1) : seq[j] # t
         IN SubSeq(seq, 1, k - 1) \o SubSeq(seq, k + 1, Len(seq))
    ELSE seq

Pull(seq, t) == SelectSeq(seq, LAMBDA x : x # t)

PushPendingDropped(us, uid, tid) == us

PushPending(us, uid, tid) ==
    IF uid \in DOMAIN us
    THEN [us EXCEPT ![uid].pendingTasks = Append(@, tid)]
    ELSE us

PullPending(us, uid, tid) ==
    IF uid \in DOMAIN us
    THEN [us EXCEPT ![uid].pendingTasks = Pull(@, tid)]
    ELSE us

\* The model keeps pendingTasks within MaxPending entries.
CanPush(us, uid) ==
    uid \in DOMAIN us => Len(us[uid].pendingTasks) < MaxPending

\* Identifiers a client may name: every well-formed one handed out so far
\* (existing or deleted) and the uncastable one.
KnownUserIds == {UserIdSeq[i] : i \in 1..nextUser}
KnownTaskIds == {TaskIdSeq[i] : i \in 1..nextTask}

\* A collection with no document.
EmptyMap == [x \in {} |-> TRUE]

Remove(coll, id) == [k \in (DOMAIN coll) \ {id} |-> coll[k]]

Range(seq) == {seq[i] : i \in 1..Len(seq)}

\* A request body: the fields the client sent (Opt: a field sent or not).
Opt(k, S) == {EmptyMap} \cup {k :> v : v \in S}

Field(body, k, old) == IF k \in DOMAIN body THEN body[k] ELSE old

\* A new document of each model, with the schema's defaults.
NewUser == [name |-> "", email |-> "", pendingTasks |-> <<>>]
NewTask ==
    [name |-> "", completed |-> FALSE, assignedUser |-> "",
     assignedUserName |-> "unassigned"]

\* The schemas' update validators (runValidators): a required string that
\* is sent must not be empty.
UserUpdateValid(body) ==
    Field(body, "name", "n") # "" /\ Field(body, "email", "e") # ""
TaskUpdateValid(body) == Field(body, "name", "n") # ""

\* The unique index on email: another User already holds it.
EmailTaken(us, email, self) ==
    \E u \in (DOMAIN us) \ {self} : us[u].email = email

\* JSON.parse of a query parameter: the one malformed text throws.
BadJson == "{bad json"
JsonOk(text) == text # BadJson

\* A request slot with no request in it.
IdleProc ==
    [pc |-> "idle", op |-> "none", id |-> "", body |-> EmptyMap,
     oldTask |-> NewTask, writes |-> <<>>, missing |-> FALSE,
     resp |-> Resp("none", "", 0, "", EmptyData)]

Procs == 1..MaxProcs

Init ==
    /\ users = EmptyMap
    /\ tasks = EmptyMap
    /\ nextUser = 0
    /\ nextTask = 0
    /\ last = Resp("none", "", 0, "", EmptyData)
    /\ procs = [p \in Procs |-> IdleProc]

\* ------------------------------------------------------------ POST /users
PostUserDupUnmapped(body, fail) ==
    /\ UNCHANGED procs
    /\ IF body.name = "" \/ body.email = ""
       THEN /\ last' = Resp("PostUser", "", 400,
                    "Validation Error: 'name' and 'email' are required fields.",
                    EmptyData)
            /\ UNCHANGED <<users, tasks, nextUser, nextTask>>
       ELSE IF fail = 1 \/ EmailTaken(users, body.email, "")
       THEN /\ last' = Resp("PostUser", "", 500, "Server error.", EmptyData)
            /\ UNCHANGED <<users, tasks, nextUser, nextTask>>
       ELSE LET id == UserIdSeq[nextUser + 1]
                user == [NewUser EXCEPT !.name = body.name, !.email = body.email,
                                        !.pendingTasks = body.pendingTasks]
            IN /\ users' = users @@ (id :> user)
               /\ nextUser' = nextUser + 1
               /\ last' = Resp("PostUser", id, 201, "User created!", DocData)
               /\ UNCHANGED <<tasks, nextTask>>

PostUserNoRequiredCheck(body, fail) ==
    /\ UNCHANGED procs
    /\ IF fail = 1
       THEN /\ last' = Resp("PostUser", "", 500, "Server error.", EmptyData)
            /\ UNCHANGED <<users, tasks, nextUser, nextTask>>
       ELSE IF EmailTaken(users, body.email, "")
       THEN /\ last' = Resp("PostUser", "", 400, "Email already exists.", EmptyData)
            /\ UNCHANGED <<users, tasks, nextUser, nextTask>>
       ELSE LET id == UserIdSeq[nextUser + 1]
                user == [NewUser EXCEPT !.name = body.name, !.email = body.email,
                                        !.pendingTasks = body.pendingTasks]
            IN /\ users' = users @@ (id :> user)
               /\ nextUser' = nextUser + 1
               /\ last' = Resp("PostUser", id, 201, "User created!", DocData)
               /\ UNCHANGED <<tasks, nextTask>>

PostUser(body, fail) ==
    /\ UNCHANGED procs
    /\ IF body.name = "" \/ body.email = ""
       THEN /\ last' = Resp("PostUser", "", 400,
                    "Validation Error: 'name' and 'email' are required fields.",
                    EmptyData)
            /\ UNCHANGED <<users, tasks, nextUser, nextTask>>
       ELSE IF fail = 1
       THEN /\ last' = Resp("PostUser", "", 500, "Server error.", EmptyData)
            /\ UNCHANGED <<users, tasks, nextUser, nextTask>>
       ELSE IF EmailTaken(users, body.email, "")
       THEN /\ last' = Resp("PostUser", "", 400, "Email already exists.", EmptyData)
            /\ UNCHANGED <<users, tasks, nextUser, nextTask>>
       ELSE LET id == UserIdSeq[nextUser + 1]
                user == [NewUser EXCEPT !.name = body.name, !.email = body.email,
                                        !.pendingTasks = body.pendingTasks]
            IN /\ users' = users @@ (id :> user)
               /\ nextUser' = nextUser + 1
               /\ last' = Resp("PostUser", id, 201, "User created!", DocData)
               /\ UNCHANGED <<tasks, nextTask>>

\* --------------------------------------------------------- GET /users/:id
GetUser(id, select, fail) ==
    /\ UNCHANGED procs
    /\ UNCHANGED <<users, tasks, nextUser, nextTask>>
    /\ IF ~JsonOk(select)
       THEN last' = Resp("GetUser", id, 400,
                "Bad Request: Invalid JSON in 'select' query parameter.", EmptyData)
       ELSE IF ~Castable(id)
       THEN last' = Resp("GetUser", id, 404, "User not found.", EmptyData)
       ELSE IF fail = 1
       THEN last' = Resp("GetUser", id, 500, "Server error: ", EmptyData)
       ELSE IF id \notin DOMAIN users
       THEN last' = Resp("GetUser", id, 404, "User not found.", EmptyData)
       ELSE last' = Resp("GetUser", id, 200, "OK", DocData)

\* --------------------------------------------------------- PUT /users/:id
PutUserCascading(id, body, fail) ==
    /\ UNCHANGED procs
    /\ UNCHANGED <<nextUser, nextTask>>
    /\ IF ~Castable(id) \/ fail = 1
       THEN /\ last' = Resp("PutUser", id, 500, "Server error.", EmptyData)
            /\ UNCHANGED <<users, tasks>>
       ELSE IF ~UserUpdateValid(body)
       THEN /\ last' = Resp("PutUser", id, 400, "Validation Error: ", EmptyData)
            /\ UNCHANGED <<users, tasks>>
       ELSE IF id \notin DOMAIN users
       THEN /\ last' = Resp("PutUser", id, 404, "User not found.", EmptyData)
            /\ UNCHANGED <<users, tasks>>
       ELSE IF "email" \in DOMAIN body /\ EmailTaken(users, body.email, id)
       THEN /\ last' = Resp("PutUser", id, 400, "Email already exists.", EmptyData)
            /\ UNCHANGED <<users, tasks>>
       ELSE /\ users' = [users EXCEPT ![id] =
                    [name |-> Field(body, "name", @.name),
                     email |-> Field(body, "email", @.email),
                     pendingTasks |-> Field(body, "pendingTasks", @.pendingTasks)]]
            /\ tasks' = [t \in DOMAIN tasks |->
                    IF "pendingTasks" \in DOMAIN body /\ t \in Range(body.pendingTasks)
                    THEN [tasks[t] EXCEPT !.assignedUser = id]
                    ELSE tasks[t]]
            /\ last' = Resp("PutUser", id, 200, "User updated!", DocData)

PutUser(id, body, fail) ==
    /\ UNCHANGED procs
    /\ UNCHANGED <<tasks, nextUser, nextTask>>
    /\ IF ~Castable(id)
       THEN /\ last' = Resp("PutUser", id, 500, "Server error.", EmptyData)
            /\ UNCHANGED users
       ELSE IF ~UserUpdateValid(body)
       THEN /\ last' = Resp("PutUser", id, 400, "Validation Error: ", EmptyData)
            /\ UNCHANGED users
       ELSE IF fail = 1
       THEN /\ last' = Resp("PutUser", id, 500, "Server error.", EmptyData)
            /\ UNCHANGED users
       ELSE IF id \notin DOMAIN users
       THEN /\ last' = Resp("PutUser", id, 404, "User not found.", EmptyData)
            /\ UNCHANGED users
       ELSE IF "email" \in DOMAIN body /\ EmailTaken(users, body.email, id)
       THEN /\ last' = Resp("PutUser", id, 400, "Email already exists.", EmptyData)
            /\ UNCHANGED users
       ELSE /\ users' = [users EXCEPT ![id] =
                    [name |-> Field(body, "name", @.name),
                     email |-> Field(body, "email", @.email),
                     pendingTasks |-> Field(body, "pendingTasks", @.pendingTasks)]]
            /\ last' = Resp("PutUser", id, 200, "User updated!", DocData)

\* ------------------------------------------------------ DELETE /users/:id
UnassignIncomplete(ts, pending) ==
    [t \in DOMAIN ts |->
        IF t \in Range(pending) /\ ~ts[t].completed
        THEN [ts[t] EXCEPT !.assignedUser = "", !.assignedUserName = "unassigned"]
        ELSE ts[t]]

\* Task.updateMany({_id: {$in: pending}}, {$set: ...}).
Unassign(ts, pending) ==
    [t \in DOMAIN ts |->
        IF t \in Range(pending)
        THEN [ts[t] EXCEPT !.assignedUser = "", !.assignedUserName = "unassigned"]
        ELSE ts[t]]

DeleteUser(id, fail) ==
    /\ UNCHANGED procs
    /\ UNCHANGED <<nextUser, nextTask>>
    /\ IF ~Castable(id) \/ fail = 1
       THEN /\ last' = Resp("DeleteUser", id, 500, "Server error: ", EmptyData)
            /\ UNCHANGED <<users, tasks>>
       ELSE IF id \notin DOMAIN users
       THEN /\ last' = Resp("DeleteUser", id, 404, "User not found.", EmptyData)
            /\ UNCHANGED <<users, tasks>>
       ELSE LET pending == users[id].pendingTasks
            IN /\ users' = Remove(users, id)
               /\ IF Len(pending) > 0
                  THEN IF (\E t \in Range(pending) : ~Castable(t)) \/ fail = 2
                       THEN /\ last' = Resp("DeleteUser", id, 500, "Server error: ",
                                    EmptyData)
                            /\ UNCHANGED tasks
                       ELSE /\ tasks' = Unassign(tasks, pending)
                            /\ last' = Resp("DeleteUser", id, 200,
                                    "User deleted! All associated tasks have been unassigned.",
                                    DocData)
                  ELSE /\ last' = Resp("DeleteUser", id, 200,
                               "User deleted! All associated tasks have been unassigned.",
                               DocData)
                       /\ UNCHANGED tasks

\* ------------------------------------------------------------ POST /tasks
PostTask(body, fail) ==
    /\ UNCHANGED procs
    /\ UNCHANGED nextUser
    /\ IF body.name = "" \/ body.deadline = ""
       THEN /\ last' = Resp("PostTask", "", 400,
                    "Validation Error: 'name' and 'deadline' are required fields.",
                    EmptyData)
            /\ UNCHANGED <<users, tasks, nextTask>>
       ELSE IF body.deadline = JunkDate
       THEN /\ last' = Resp("PostTask", "", 400, "Validation Error: ", EmptyData)
            /\ UNCHANGED <<users, tasks, nextTask>>
       ELSE IF fail = 1
       THEN /\ last' = Resp("PostTask", "", 500, "Server error.", EmptyData)
            /\ UNCHANGED <<users, tasks, nextTask>>
       ELSE LET id == TaskIdSeq[nextTask + 1]
                savedTask ==
                    [NewTask EXCEPT
                        !.name = body.name,
                        !.completed = IF body.completed THEN body.completed ELSE @,
                        !.assignedUser =
                            IF body.assignedUser # "" THEN body.assignedUser ELSE @,
                        !.assignedUserName =
                            IF body.assignedUserName # "" THEN body.assignedUserName
                            ELSE @]
            IN /\ tasks' = tasks @@ (id :> savedTask)
               /\ nextTask' = nextTask + 1
               /\ IF savedTask.assignedUser # "" /\ ~savedTask.completed
                  THEN IF ~Castable(savedTask.assignedUser) \/ fail = 2
                       THEN /\ last' = Resp("PostTask", id, 500, "Server error.",
                                    EmptyData)
                            /\ UNCHANGED users
                       ELSE /\ CanPush(users, savedTask.assignedUser)
                            /\ users' = PushPending(users, savedTask.assignedUser, id)
                            /\ last' = Resp("PostTask", id, 201, "Task created!", DocData)
                  ELSE /\ last' = Resp("PostTask", id, 201, "Task created!", DocData)
                       /\ UNCHANGED users

\* --------------------------------------------------------- GET /tasks/:id
GetTask(id, select, fail) ==
    /\ UNCHANGED procs
    /\ UNCHANGED <<users, tasks, nextUser, nextTask>>
    /\ IF ~JsonOk(select)
       THEN last' = Resp("GetTask", id, 400,
                "Bad Request: Invalid JSON in 'select' query parameter.", EmptyData)
       ELSE IF ~Castable(id) \/ fail = 1
       THEN last' = Resp("GetTask", id, 500, "Server error: ", EmptyData)
       ELSE IF id \notin DOMAIN tasks
       THEN last' = Resp("GetTask", id, 404, "Task not found.", EmptyData)
       ELSE last' = Resp("GetTask", id, 200, "OK", DocData)

\* --------------------------------------------------------- PUT /tasks/:id
\* Task.findByIdAndUpdate(taskId, newBody, {new: true}): the updated document.
UpdatedTask(oldTask, body) ==
    [name |-> Field(body, "name", oldTask.name),
     completed |-> Field(body, "completed", oldTask.completed),
     assignedUser |-> Field(body, "assignedUser", oldTask.assignedUser),
     assignedUserName |-> Field(body, "assignedUserName", oldTask.assignedUserName)]

ReconcileToggleSwapped(oldTask, updatedTask) ==
    LET oldUserId == oldTask.assignedUser
        newUserId == updatedTask.assignedUser
    IN IF oldUserId # newUserId
       THEN (IF oldUserId # "" THEN << <<"pull", oldUserId>> >> ELSE <<>>)
            \o (IF newUserId # "" /\ ~updatedTask.completed
                THEN << <<"push", newUserId>> >> ELSE <<>>)
       ELSE IF newUserId # "" /\ oldTask.completed # updatedTask.completed
       THEN IF updatedTask.completed THEN << <<"push", newUserId>> >>
            ELSE << <<"pull", newUserId>> >>
       ELSE <<>>

ReconcileNoPullOld(oldTask, updatedTask) ==
    LET oldUserId == oldTask.assignedUser
        newUserId == updatedTask.assignedUser
    IN IF oldUserId # newUserId
       THEN IF newUserId # "" /\ ~updatedTask.completed
            THEN << <<"push", newUserId>> >> ELSE <<>>
       ELSE IF newUserId # "" /\ oldTask.completed # updatedTask.completed
       THEN IF updatedTask.completed THEN << <<"pull", newUserId>> >>
            ELSE << <<"push", newUserId>> >>
       ELSE <<>>

ReconcileAlwaysPush(oldTask, updatedTask) ==
    LET oldUserId == oldTask.assignedUser
        newUserId == updatedTask.assignedUser
    IN IF oldUserId # newUserId
       THEN (IF oldUserId # "" THEN << <<"pull", oldUserId>> >> ELSE <<>>)
            \o (IF newUserId # "" /\ ~updatedTask.completed
                THEN << <<"push", newUserId>> >> ELSE <<>>)
       ELSE IF newUserId # ""
       THEN IF updatedTask.completed THEN << <<"pull", newUserId>> >>
            ELSE << <<"push", newUserId>> >>
       ELSE <<>>

\* The User writes that follow the Task write, in the order the handler
\* issues them: <<kind, user id>> with kind "pull" or "push".
Reconcile(oldTask, updatedTask) ==
    LET oldUserId == oldTask.assignedUser
        newUserId == updatedTask.assignedUser
        wasCompleted == oldTask.completed
        isCompleted == updatedTask.completed
    IN IF oldUserId # newUserId
       THEN (IF oldUserId # "" THEN << <<"pull", oldUserId>> >> ELSE <<>>)
            \o (IF newUserId # "" /\ ~isCompleted
                THEN << <<"push", newUserId>> >> ELSE <<>>)
       ELSE IF newUserId # "" /\ wasCompleted # isCompleted
       THEN IF isCompleted THEN << <<"pull", newUserId>> >>
            ELSE << <<"push", newUserId>> >>
       ELSE <<>>

\* One awaited User.findByIdAndUpdate(uid, {$pull | $push: {pendingTasks: tid}}).
ApplyWrite(us, w, tid) ==
    IF w[1] = "pull" THEN PullPending(us, w[2], tid) ELSE PushPending(us, w[2], tid)

\* The writes are awaited one after the other; the first that throws (an
\* uncastable user id, or the store failing at call number fail) ends the
\* sequence.  ok: none threw.  The first User write is store call 3.
RECURSIVE RunWrites(_, _, _, _, _)
RunWrites(us, ws, tid, call, fail) ==
    IF ws = <<>> THEN [users |-> us, ok |-> TRUE]
    ELSE IF ~Castable(Head(ws)[2]) \/ fail = call
    THEN [users |-> us, ok |-> FALSE]
    ELSE RunWrites(ApplyWrite(us, Head(ws), tid), Tail(ws), tid, call + 1, fail)

PutTaskResultRollback(us, ts, id, body, fail) ==
    IF ~Castable(id) \/ fail = 1
    THEN [users |-> us, tasks |-> ts,
          resp |-> Resp("PutTask", id, 500, "Server error.", EmptyData)]
    ELSE IF id \notin DOMAIN ts
    THEN [users |-> us, tasks |-> ts,
          resp |-> Resp("PutTask", id, 404, "Task not found.", EmptyData)]
    ELSE IF ~TaskUpdateValid(body)
    THEN [users |-> us, tasks |-> ts,
          resp |-> Resp("PutTask", id, 400, "Validation Error: ", EmptyData)]
    ELSE IF fail = 2
    THEN [users |-> us, tasks |-> ts,
          resp |-> Resp("PutTask", id, 500, "Server error.", EmptyData)]
    ELSE LET oldTask == ts[id]
             updatedTask == UpdatedTask(oldTask, body)
             run == RunWrites(us, Reconcile(oldTask, updatedTask), id, 3, fail)
         IN IF run.ok
            THEN [users |-> run.users, tasks |-> [ts EXCEPT ![id] = updatedTask],
                  resp |-> Resp("PutTask", id, 200, "Task updated!", DocData)]
            ELSE [users |-> us, tasks |-> ts,
                  resp |-> Resp("PutTask", id, 500, "Server error.", EmptyData)]

\* The handler as a function of the store: the store it leaves and its
\* response.
PutTaskResult(us, ts, id, body, fail) ==
    IF ~Castable(id) \/ fail = 1
    THEN [users |-> us, tasks |-> ts,
          resp |-> Resp("PutTask", id, 500, "Server error.", EmptyData)]
    ELSE IF id \notin DOMAIN ts
    THEN [users |-> us, tasks |-> ts,
          resp |-> Resp("PutTask", id, 404, "Task not found.", EmptyData)]
    ELSE IF ~TaskUpdateValid(body)
    THEN [users |-> us, tasks |-> ts,
          resp |-> Resp("PutTask", id, 400, "Validation Error: ", EmptyData)]
    ELSE IF fail = 2
    THEN [users |-> us, tasks |-> ts,
          resp |-> Resp("PutTask", id, 500, "Server error.", EmptyData)]
    ELSE LET oldTask == ts[id]
             updatedTask == UpdatedTask(oldTask, body)
             run == RunWrites(us, Reconcile(oldTask, updatedTask), id, 3, fail)
         IN [users |-> run.users,
             tasks |-> [ts EXCEPT ![id] = updatedTask],
             resp |-> IF run.ok
                      THEN Resp("PutTask", id, 200, "Task updated!", DocData)
                      ELSE Resp("PutTask", id, 500, "Server error.", EmptyData)]

PutTask(id, body, fail) ==
    LET r == PutTaskResult(users, tasks, id, body, fail)
    IN /\ UNCHANGED procs
       /\ \A u \in DOMAIN r.users : Len(r.users[u].pendingTasks) <= MaxPending
       /\ users' = r.users
       /\ tasks' = r.tasks
       /\ last' = r.resp
       /\ UNCHANGED <<nextUser, nextTask>>

\* ------------------------------------------------------ DELETE /tasks/:id
DeleteTask(id, fail) ==
    /\ UNCHANGED procs
    /\ UNCHANGED <<nextUser, nextTask>>
    /\ IF ~Castable(id) \/ fail = 1
       THEN /\ last' = Resp("DeleteTask", id, 500, "Server error: ", EmptyData)
            /\ UNCHANGED <<users, tasks>>
       ELSE IF id \notin DOMAIN tasks
       THEN /\ last' = Resp("DeleteTask", id, 404, "Task not found.", EmptyData)
            /\ UNCHANGED <<users, tasks>>
       ELSE LET deletedTask == tasks[id]
            IN /\ tasks' = Remove(tasks, id)
               /\ IF deletedTask.assignedUser # ""
                  THEN IF ~Castable(deletedTask.assignedUser) \/ fail = 2
                       THEN /\ last' = Resp("DeleteTask", id, 500, "Server error: ",
                                    EmptyData)
                            /\ UNCHANGED users
                       ELSE /\ users' = PullPending(users, deletedTask.assignedUser, id)
                            /\ last' = Resp("DeleteTask", id, 200, "Task deleted!",
                                    DocData)
                  ELSE /\ last' = Resp("DeleteTask", id, 200, "Task deleted!", DocData)
                       /\ UNCHANGED users

\* ------------------------------------------------- GET /users, GET /tasks
DefaultUserLimit == 0
DefaultTaskLimit == 100

\* parseInt of a query parameter: the set holding the number, or the empty
\* set for NaN.
Numerals == ("0" :> 0) @@ ("1" :> 1) @@ ("2" :> 2)
ParseInt(text) == IF text \in DOMAIN Numerals THEN {Numerals[text]} ELSE {}

\* JavaScript truthiness of a number: neither 0 nor NaN.
Truthy(num) == num # {} /\ num # {0}
NumberOf(num) == CHOOSE n \in num : TRUE

\* A where filter the store cannot cast: {"_id": "bad"}.
CastWhere == "{\"_id\":\"bad\"}"

Min(a, b) == IF a <= b THEN a ELSE b
Max(a, b) == IF a >= b THEN a ELSE b

\* query.skip(skip).limit(limit).exec() over n matching documents: how many
\* documents come back.  skip and limit are applied only when truthy.
Returned(n, skip, limit) ==
    LET rest == IF Truthy(skip) THEN Max(0, n - NumberOf(skip)) ELSE n
    IN IF Truthy(limit) THEN Min(rest, NumberOf(limit)) ELSE rest

\* skip = req.query.skip ? parseInt(req.query.skip) : 0, and limit likewise.
ParamOr(text, default) == IF text # "" THEN ParseInt(text) ELSE {default}

ListRespParseLate(op, coll, q, fail, default, castStatus, castMessage) ==
    IF fail = 1
    THEN Resp(op, "", 500, "Server error: ", EmptyData)
    ELSE IF ~JsonOk(q.where) \/ ~JsonOk(q.sort) \/ ~JsonOk(q.select)
    THEN Resp(op, "", 400,
            "Bad Request: Invalid JSON in 'where', 'sort', or 'select' query parameter.",
            EmptyData)
    ELSE Resp(op, "", 200, "OK", ListData(Cardinality(DOMAIN coll)))

\* The list handler of a collection coll: op names the route, default its
\* limit when none is sent, castStatus and castMessage its answer to a
\* CastError of the store.
ListResp(op, coll, q, fail, default, castStatus, castMessage) ==
    IF ~JsonOk(q.where) \/ ~JsonOk(q.sort) \/ ~JsonOk(q.select)
    THEN Resp(op, "", 400,
            "Bad Request: Invalid JSON in 'where', 'sort', or 'select' query parameter.",
            EmptyData)
    ELSE LET skip == ParamOr(q.skip, 0)
             limit == ParamOr(q.limit, default)
             n == Cardinality(DOMAIN coll)
         IN IF q.where = CastWhere
            THEN Resp(op, "", castStatus, castMessage, EmptyData)
            ELSE IF fail = 1
            THEN Resp(op, "", 500, "Server error: ", EmptyData)
            ELSE IF q.count = "true"
            THEN Resp(op, "", 200, "OK", CountData(n))
            ELSE Resp(op, "", 200, "OK", ListData(Returned(n, skip, limit)))

ListTasksRespUnlimited(ts, q, fail) ==
    ListResp("ListTasks", ts, q, fail, DefaultUserLimit, 500, "Server error: ")

ListUsersResp(us, q, fail) ==
    ListResp("ListUsers", us, q, fail, DefaultUserLimit, 404, "User not found.")

ListTasksResp(ts, q, fail) ==
    ListResp("ListTasks", ts, q, fail, DefaultTaskLimit, 500, "Server error: ")

ListUsers(q, fail) ==
    /\ UNCHANGED procs
    /\ last' = ListUsersResp(users, q, fail)
    /\ UNCHANGED <<users, tasks, nextUser, nextTask>>

ListTasks(q, fail) ==
    /\ UNCHANGED procs
    /\ last' = ListTasksResp(tasks, q, fail)
    /\ UNCHANGED <<users, tasks, nextUser, nextTask>>

\* ---------------------------------------------------------------- inputs
\* pendingTasks as a client may send it.
PendingInputs == {<<>>} \cup {<<t>> : t \in KnownTaskIds}

\* A body that fails validation is sent with nothing else of interest in it.
UserPostBodies ==
    [name : Names, email : Emails, pendingTasks : PendingInputs]
    \cup [name : {""}, email : Emails, pendingTasks : {<<>>}]
    \cup [name : Names, email : {""}, pendingTasks : {<<>>}]

UserPutBodies ==
    {e @@ p : e \in Opt("email", Emails), p \in Opt("pendingTasks", PendingInputs)}
    \cup {"name" :> "", "email" :> ""}

\* An assignment as a client sends it: the user id with its display name.
AssignInputs ==
    {[assignedUser |-> u, assignedUserName |-> n] :
        u \in {BadId} \cup KnownUserIds, n \in Names}

TaskPostBodies ==
    {[name |-> n, deadline |-> "d", completed |-> c,
      assignedUser |-> a.assignedUser, assignedUserName |-> a.assignedUserName] :
        n \in Names, c \in BOOLEAN,
        a \in AssignInputs \cup {[assignedUser |-> "", assignedUserName |-> ""]}}
    \cup [name : {""}, deadline : {"d"}, completed : {FALSE},
          assignedUser : {""}, assignedUserName : {""}]
    \cup [name : Names, deadline : {"", JunkDate}, completed : {FALSE},
          assignedUser : {""}, assignedUserName : {""}]

TaskPutBodies ==
    {c @@ a : c \in Opt("completed", BOOLEAN),
              a \in {EmptyMap} \cup AssignInputs
                   \cup {[assignedUser |-> "", assignedUserName |-> "unassigned"]}}
    \cup {"name" :> ""}

SelectInputs == {"", BadJson}

\* The query string of a list request ("": the parameter is not sent).  A
\* request with malformed JSON carries nothing else of interest.
PlainQuery ==
    [where |-> "", sort |-> "", select |-> "", skip |-> "", limit |-> "",
     count |-> ""]

ListQueriesOver(wheres, numbers, counts) ==
    {[PlainQuery EXCEPT !.where = w, !.skip = sk, !.limit = li, !.count = c] :
        w \in wheres, sk \in numbers, li \in numbers, c \in counts}
    \cup {[PlainQuery EXCEPT !.where = BadJson],
          [PlainQuery EXCEPT !.sort = BadJson],
          [PlainQuery EXCEPT !.select = BadJson],
          [PlainQuery EXCEPT !.select = BadJson, !.count = "true"]}

ListQueries ==
    ListQueriesOver({"", "{}", CastWhere}, {"", "0", "1", "2", "abc"},
                    {"", "true", "1"})

\* The list requests sent while the store is being written.
FewListQueries == ListQueriesOver({"", CastWhere}, {"", "1"}, {"", "true"})

\* Which store call of the request fails (0: none).
FailInputs(calls) == 0..calls

Next ==
    \/ /\ nextUser < MaxUsers
       /\ \E body \in UserPostBodies, fail \in FailInputs(1) : PostUser(body, fail)
    \/ \E id \in KnownUserIds \cup {BadId}, select \in SelectInputs,
          fail \in FailInputs(1) : GetUser(id, select, fail)
    \/ \E id \in KnownUserIds \cup {BadId}, body \in UserPutBodies,
          fail \in FailInputs(1) : PutUser(id, body, fail)
    \/ \E id \in KnownUserIds \cup {BadId}, fail \in FailInputs(2) :
          DeleteUser(id, fail)
    \/ /\ nextTask < MaxTasks
       /\ \E body \in TaskPostBodies, fail \in FailInputs(2) : PostTask(body, fail)
    \/ \E id \in KnownTaskIds \cup {BadId}, select \in SelectInputs,
          fail \in FailInputs(1) : GetTask(id, select, fail)
    \/ \E id \in KnownTaskIds \cup {BadId}, body \in TaskPutBodies,
          fail \in FailInputs(4) : PutTask(id, body, fail)
    \/ \E id \in KnownTaskIds \cup {BadId}, fail \in FailInputs(2) :
          DeleteTask(id, fail)
    \/ \E q \in FewListQueries, fail \in FailInputs(1) : ListUsers(q, fail)
    \/ \E q \in FewListQueries, fail \in FailInputs(1) : ListTasks(q, fail)

Spec == Init /\ [][Next]_vars

\* ------------------------------------------------------- the list requests
\* The list handlers over a store that earlier requests have filled: Users
\* with distinct emails, unassigned Tasks.  Only list requests follow, so the
\* store stays as it starts.
MaxOver == 3

StoreSizes ==
    {0, 1, 2} \cup {DefaultTaskLimit + d : d \in (0 - 1)..MaxOver}

BulkIds(prefix, n) == {prefix \o ToString(i) : i \in 1..n}

BulkUsers(n) ==
    [id \in BulkIds("u", n) |-> [NewUser EXCEPT !.name = "n", !.email = id]]

BulkTasks(n) ==
    [id \in BulkIds("t", n) |-> [NewTask EXCEPT !.name = "n"]]

InitList ==
    /\ \E n \in StoreSizes : users = BulkUsers(n) /\ nextUser = n
    /\ \E n \in StoreSizes : tasks = BulkTasks(n) /\ nextTask = n
    /\ last = Resp("none", "", 0, "", EmptyData)
    /\ procs = [p \in Procs |-> IdleProc]

NextList ==
    \/ \E q \in ListQueries, fail \in FailInputs(1) : ListUsers(q, fail)
    \/ \E q \in ListQueries, fail \in FailInputs(1) : ListTasks(q, fail)

SpecList == InitList /\ [][NextList]_vars

\* -------------------------------------------------- well-behaved clients
\* The same handlers under requests that never supply pendingTasks, name as
\* assignedUser only the empty string or an existing User, address only ids
\* the store has issued, and meet a store that never fails.
RestrictedUserPostBodies == {b \in UserPostBodies : b.pendingTasks = <<>>}

RestrictedUserPutBodies == {b \in UserPutBodies : "pendingTasks" \notin DOMAIN b}

RestrictedTaskPostBodies ==
    {b \in TaskPostBodies : b.assignedUser \in {""} \cup DOMAIN users}

RestrictedTaskPutBodies ==
    {b \in TaskPutBodies :
        "assignedUser" \in DOMAIN b => b.assignedUser \in {""} \cup DOMAIN users}

MaxTasksRestricted == MaxTasks + 1

NextRestricted ==
    \/ nextUser < MaxUsers /\ \E body \in RestrictedUserPostBodies : PostUser(body, 0)
    \/ \E id \in KnownUserIds : GetUser(id, "", 0)
    \/ \E id \in KnownUserIds, body \in RestrictedUserPutBodies : PutUser(id, body, 0)
    \/ \E id \in KnownUserIds : DeleteUser(id, 0)
    \/ nextTask < MaxTasksRestricted
          /\ \E body \in RestrictedTaskPostBodies : PostTask(body, 0)
    \/ \E id \in KnownTaskIds : GetTask(id, "", 0)
    \/ \E id \in KnownTaskIds, body \in RestrictedTaskPutBodies : PutTask(id, body, 0)
    \/ \E id \in KnownTaskIds : DeleteTask(id, 0)
    \/ ListUsers(PlainQuery, 0)
    \/ ListTasks(PlainQuery, 0)

SpecRestricted == Init /\ [][NextRestricted]_vars

\* ------------------------------------------------ task requests in flight
\* The task handlers one store call at a time.  A request occupies a slot
\* of procs from its first store call until its response is sent; between
\* two of its calls the calls of the other requests may run.  Clients are
\* well-behaved and the store does not fail.
SavedTask(body) ==
    [NewTask EXCEPT
        !.name = body.name,
        !.completed = IF body.completed THEN body.completed ELSE @,
        !.assignedUser = IF body.assignedUser # "" THEN body.assignedUser ELSE @,
        !.assignedUserName =
            IF body.assignedUserName # "" THEN body.assignedUserName ELSE @]

\* The request has its response and waits to send it.
Done(op, id, resp, missing) ==
    [IdleProc EXCEPT !.pc = "done", !.op = op, !.id = id, !.resp = resp,
                     !.missing = missing]

\* After a store call: the User writes ws are still to be awaited, then ok
\* is the response.
Continue(op, id, ws, ok) ==
    IF ws = <<>> THEN Done(op, id, ok, FALSE)
    ELSE [IdleProc EXCEPT !.pc = "writes", !.op = op, !.id = id, !.writes = ws,
                          !.resp = ok]

\* POST /tasks up to and including task.save().
PostTaskSave(p, body) ==
    /\ procs[p].pc = "idle"
    /\ UNCHANGED <<users, nextUser, last>>
    /\ IF body.name = "" \/ body.deadline = ""
       THEN /\ procs' = [procs EXCEPT ![p] = Done("PostTask", "",
                    Resp("PostTask", "", 400,
                         "Validation Error: 'name' and 'deadline' are required fields.",
                         EmptyData), FALSE)]
            /\ UNCHANGED <<tasks, nextTask>>
       ELSE IF body.deadline = JunkDate
       THEN /\ procs' = [procs EXCEPT ![p] = Done("PostTask", "",
                    Resp("PostTask", "", 400, "Validation Error: ", EmptyData),
                    FALSE)]
            /\ UNCHANGED <<tasks, nextTask>>
       ELSE LET id == TaskIdSeq[nextTask + 1]
                savedTask == SavedTask(body)
                ws == IF savedTask.assignedUser # "" /\ ~savedTask.completed
                      THEN << <<"push", savedTask.assignedUser>> >> ELSE <<>>
            IN /\ tasks' = tasks @@ (id :> savedTask)
               /\ nextTask' = nextTask + 1
               /\ procs' = [procs EXCEPT ![p] = Continue("PostTask", id, ws,
                       Resp("PostTask", id, 201, "Task created!", DocData))]

\* PUT /tasks/:id: Task.findById(taskId).
PutTaskFind(p, id, body) ==
    /\ procs[p].pc = "idle"
    /\ UNCHANGED <<users, tasks, nextUser, nextTask, last>>
    /\ IF id \notin DOMAIN tasks
       THEN procs' = [procs EXCEPT ![p] = Done("PutTask", id,
                Resp("PutTask", id, 404, "Task not found.", EmptyData), TRUE)]
       ELSE procs' = [procs EXCEPT ![p] =
                [IdleProc EXCEPT !.pc = "update", !.op = "PutTask", !.id = id,
                                 !.body = body, !.oldTask = tasks[id]]]

\* PUT /tasks/:id: Task.findByIdAndUpdate(taskId, newBody) and the reading
\* of its result.  A Task deleted since findById makes the call resolve to
\* null; updatedTask.assignedUser then throws a TypeError, which the catch
\* answers with 500.
PutTaskUpdate(p) ==
    LET id == procs[p].id
        body == procs[p].body
    IN /\ procs[p].pc = "update"
       /\ UNCHANGED <<users, nextUser, nextTask, last>>
       /\ IF ~TaskUpdateValid(body)
          THEN /\ procs' = [procs EXCEPT ![p] = Done("PutTask", id,
                       Resp("PutTask", id, 400, "Validation Error: ", EmptyData),
                       FALSE)]
               /\ UNCHANGED tasks
          ELSE IF id \notin DOMAIN tasks
          THEN /\ procs' = [procs EXCEPT ![p] = Done("PutTask", id,
                       Resp("PutTask", id, 500, "Server error.", EmptyData), TRUE)]
               /\ UNCHANGED tasks
          ELSE LET updatedTask == UpdatedTask(tasks[id], body)
               IN /\ tasks' = [tasks EXCEPT ![id] = updatedTask]
                  /\ procs' = [procs EXCEPT ![p] = Continue("PutTask", id,
                          Reconcile(procs[p].oldTask, updatedTask),
                          Resp("PutTask", id, 200, "Task updated!", DocData))]

\* DELETE /tasks/:id: Task.findByIdAndDelete(req.params.id).
DeleteTaskRemove(p, id) ==
    /\ procs[p].pc = "idle"
    /\ UNCHANGED <<users, nextUser, nextTask, last>>
    /\ IF id \notin DOMAIN tasks
       THEN /\ procs' = [procs EXCEPT ![p] = Done("DeleteTask", id,
                    Resp("DeleteTask", id, 404, "Task not found.", EmptyData), TRUE)]
            /\ UNCHANGED tasks
       ELSE LET deletedTask == tasks[id]
                ws == IF deletedTask.assignedUser # ""
                      THEN << <<"pull", deletedTask.assignedUser>> >> ELSE <<>>
            IN /\ tasks' = Remove(tasks, id)
               /\ procs' = [procs EXCEPT ![p] = Continue("DeleteTask", id, ws,
                       Resp("DeleteTask", id, 200, "Task deleted!", DocData))]

\* The next awaited User.findByIdAndUpdate of a request ($push or $pull).
UserWrite(p) ==
    LET w == Head(procs[p].writes)
    IN /\ procs[p].pc = "writes"
       /\ UNCHANGED <<tasks, nextUser, nextTask, last>>
       /\ IF ~Castable(w[2])
          THEN /\ procs' = [procs EXCEPT ![p] = Done(procs[p].op, procs[p].id,
                       Resp(procs[p].op, procs[p].id, 500, "Server error.", EmptyData),
                       FALSE)]
               /\ UNCHANGED users
          ELSE /\ w[1] = "push" => CanPush(users, w[2])
               /\ users' = ApplyWrite(users, w, procs[p].id)
               /\ procs' = [procs EXCEPT ![p] = Continue(procs[p].op, procs[p].id,
                       Tail(procs[p].writes), procs[p].resp)]

\* res.status(...).json(...): the response leaves and the slot is free.
Respond(p) ==
    /\ procs[p].pc = "done"
    /\ last' = procs[p].resp
    /\ procs' = [procs EXCEPT ![p] = IdleProc]
    /\ UNCHANGED <<users, tasks, nextUser, nextTask>>

NextConcurrent ==
    \/ /\ nextUser < MaxUsers
       /\ \E body \in RestrictedUserPostBodies : PostUser(body, 0)
    \/ /\ nextTask < MaxTasks
       /\ \E p \in Procs, body \in RestrictedTaskPostBodies : PostTaskSave(p, body)
    \/ \E p \in Procs, id \in KnownTaskIds, body \in RestrictedTaskPutBodies :
          PutTaskFind(p, id, body)
    \/ \E p \in Procs : PutTaskUpdate(p)
    \/ \E p \in Procs, id \in KnownTaskIds : DeleteTaskRemove(p, id)
    \/ \E p \in Procs : UserWrite(p)
    \/ \E p \in Procs : Respond(p)

SpecConcurrent == Init /\ [][NextConcurrent]_vars

\* ================================================================ claims
Pending(us, u) == Range(us[u].pendingTasks)

Count(seq, x) == Cardinality({i \in 1..Len(seq) : seq[i] = x})

Succeeded == last.status \in {200, 201}

\* Task t is pending against user u: assigned to u and not completed.
PendingAgainst(ts, t, u) ==
    t \in DOMAIN ts /\ ts[t].assignedUser = u /\ ~ts[t].completed

\* C1: after any sequence of completed requests, for every existing User u
\* and every Task id t, t is in u.pendingTasks iff Task t exists, is
\* assigned to u and is not completed.  (Stated of the states a successful
\* request leaves.)
C1_MirrorInvariant ==
    Succeeded =>
        \A u \in DOMAIN users :
            \A t \in Pending(users, u) \cup DOMAIN tasks :
                t \in Pending(users, u) <=> PendingAgainst(tasks, t, u)

\* A step of POST /tasks that persisted a Task.
TaskCreated == last'.op = "PostTask" /\ nextTask' = nextTask + 1

\* C2: a successful POST /tasks with assignedUser an existing User U1 and
\* completed false leaves the new id in U1.pendingTasks; with completed true
\* it leaves U1.pendingTasks unchanged; with an empty assignedUser it
\* changes no User.
C2_TaskCreate ==
    [][(TaskCreated /\ last'.status = 201) =>
        LET t == last'.id
            u == tasks'[t].assignedUser
        IN /\ t = TaskIdSeq[nextTask']
           /\ (u \in DOMAIN users /\ ~tasks'[t].completed)
                 => t \in Pending(users', u)
           /\ (u \in DOMAIN users /\ tasks'[t].completed)
                 => users'[u].pendingTasks = users[u].pendingTasks
           /\ u = "" => users' = users]_vars

C2_Witness ==
    /\ last.op = "PostTask" /\ last.status = 201
    /\ tasks[last.id].assignedUser \in DOMAIN users
    /\ ~tasks[last.id].completed
    /\ last.id \in Pending(users, tasks[last.id].assignedUser)

\* A successful step of PUT /tasks/:id on Task t.
TaskUpdated(t) ==
    /\ last'.op = "PutTask" /\ last'.id = t /\ last'.status = 200
    /\ t \in DOMAIN tasks /\ t \in DOMAIN tasks'
    /\ <<users, tasks, last>> # <<users', tasks', last'>>

\* C3: a successful PUT /tasks/:id that changes assignedUser from U1 to U2
\* removes the id from U1.pendingTasks, adds it to U2.pendingTasks exactly
\* when U2 is non-empty and the Task is not completed afterwards, and a Task
\* completed afterwards is in neither list.
C3_Reassign ==
    [][\A t \in DOMAIN tasks :
        (TaskUpdated(t) /\ tasks'[t].assignedUser # tasks[t].assignedUser) =>
            LET U1 == tasks[t].assignedUser
                U2 == tasks'[t].assignedUser
            IN /\ U1 \in DOMAIN users' => t \notin Pending(users', U1)
               /\ (U2 \in DOMAIN users' /\ ~tasks'[t].completed)
                     => t \in Pending(users', U2)
               /\ (U2 \in DOMAIN users' /\ tasks'[t].completed)
                     => t \notin Pending(users', U2)]_vars

C5_TaskDelete ==
    [][\A t \in DOMAIN tasks :
        (last'.op = "DeleteTask" /\ last'.id = t /\ last'.status = 200) =>
            /\ t \notin DOMAIN tasks'
            /\ \A u \in DOMAIN users' :
                 tasks[t].assignedUser = u => t \notin Pending(users', u)]_vars

C5_Witness ==
    /\ last.op = "DeleteTask" /\ last.status = 200
    /\ last.id \notin DOMAIN tasks
    /\ users # EmptyMap
    /\ \A u \in DOMAIN users : last.id \notin Pending(users, u)

\* A successful step of DELETE /users/:id on User u.
UserDeleted(u) ==
    /\ last'.op = "DeleteUser" /\ last'.id = u /\ last'.status = 200
    /\ u \in DOMAIN users

\* C6: after a successful DELETE /users/:id of a User whose pendingTasks is
\* [T1..Tn], every existing Ti has assignedUser "" and assignedUserName
\* "unassigned", whatever its completed flag, and no Task was deleted.
C6_UserDeleteCascade ==
    [][\A u \in DOMAIN users :
        UserDeleted(u) =>
            /\ u \notin DOMAIN users'
            /\ DOMAIN tasks' = DOMAIN tasks
            /\ \A t \in Pending(users, u) \cap DOMAIN tasks :
                 /\ tasks'[t].assignedUser = ""
                 /\ tasks'[t].assignedUserName = "unassigned"
                 /\ tasks'[t].completed = tasks[t].completed]_vars

C6_Witness ==
    /\ last.op = "DeleteUser" /\ last.status = 200
    /\ last.id \notin DOMAIN users
    /\ \E t \in DOMAIN tasks :
         /\ tasks[t].completed
         /\ tasks[t].assignedUser = ""
         /\ tasks[t].assignedUserName = "unassigned"

\* C7: after a successful DELETE /users/:id of User U, every Task that had
\* assignedUser U (completed or not) has an empty assignedUser.
C7_NoDanglingAssignee ==
    [][\A u \in DOMAIN users :
        UserDeleted(u) =>
            \A t \in DOMAIN tasks :
                tasks[t].assignedUser = u =>
                    t \in DOMAIN tasks' /\ tasks'[t].assignedUser = ""]_vars

\* C8: GET /users/:id and GET /tasks/:id with an uncastable id (and a
\* well-formed select) respond 404.
C8_GetInvalidId ==
    (last.op \in {"GetUser", "GetTask"} /\ ~Castable(last.id) /\ last.status # 400)
        => last.status = 404

\* C9: PUT and DELETE on /users/:id and /tasks/:id with an uncastable id
\* respond 404 and leave every User and Task unchanged.
C9_WriteInvalidId ==
    [][(last'.op \in {"PutUser", "DeleteUser", "PutTask", "DeleteTask"}
        /\ ~Castable(last'.id) /\ last' # last) =>
            /\ last'.status = 404
            /\ users' = users
            /\ tasks' = tasks]_vars

\* C10: when POST /tasks has persisted the Task, the client receives 201 and
\* the Task stays persisted, also when the append to the assigned User's
\* pendingTasks fails.
C10_CreateFireAndForget ==
    [][TaskCreated =>
        /\ TaskIdSeq[nextTask'] \in DOMAIN tasks'
        /\ last'.status = 201]_vars

\* C11: PUT /tasks/:id is not atomic with its User writes.  Whenever the
\* Task write of a request succeeds and one of the pendingTasks writes that
\* follow it fails, the Task holds the updated fields (nothing is rolled
\* back), the User of the failing write has the pendingTasks it had before,
\* and the client gets a 500 with empty data.
C11_UpdateNotAtomic ==
    \A t \in DOMAIN tasks, body \in TaskPutBodies, fail \in {0, 3, 4} :
        LET updatedTask == UpdatedTask(tasks[t], body)
            ws == Reconcile(tasks[t], updatedTask)
            r == PutTaskResult(users, tasks, t, body, fail)
        IN (TaskUpdateValid(body) /\ r.resp.status # 200) =>
              /\ r.resp.status = 500
              /\ r.resp.data = EmptyData
              /\ r.tasks = [tasks EXCEPT ![t] = updatedTask]
              /\ DOMAIN r.users = DOMAIN users
              /\ \E k \in 1..Len(ws) :
                    /\ ~Castable(ws[k][2]) \/ fail = k + 2
                    /\ ws[k][2] \in DOMAIN users =>
                          r.users[ws[k][2]].pendingTasks = users[ws[k][2]].pendingTasks

\* A reassignment answered 500 after the Task write went through: the Task
\* names an existing User who never received it.
C11_Witness ==
    /\ last.op = "PutTask" /\ last.status = 500
    /\ last.id \in DOMAIN tasks
    /\ tasks[last.id].assignedUser \in DOMAIN users
    /\ ~tasks[last.id].completed
    /\ last.id \notin Pending(users, tasks[last.id].assignedUser)

\* C12: Task update frame.  A PUT /tasks/:id that succeeds and leaves both
\* assignedUser and completed at the Task's prior values issues no User
\* write (so a store that would reject the next call goes unnoticed) and
\* leaves every User's pendingTasks as it was.
C12_TaskUpdateFrame ==
    \A t \in DOMAIN tasks, body \in TaskPutBodies, fail \in {0, 3} :
        LET updatedTask == UpdatedTask(tasks[t], body)
            r == PutTaskResult(users, tasks, t, body, fail)
        IN (/\ TaskUpdateValid(body)
            /\ updatedTask.assignedUser = tasks[t].assignedUser
            /\ updatedTask.completed = tasks[t].completed) =>
              /\ r.resp.status = 200
              /\ r.users = users

\* The last request updated a Task that is pending against a User whose
\* list lacks it: a PUT that had changed the assignee or the completion
\* would have pushed it.
C12_Witness ==
    /\ last.op = "PutTask" /\ last.status = 200
    /\ last.id \in DOMAIN tasks
    /\ \E u \in DOMAIN users :
          PendingAgainst(tasks, last.id, u) /\ last.id \notin Pending(users, u)

\* C13: User update frame.  A PUT /users/:id step writes at most the
\* addressed User: no Task changes, no User appears or disappears, and every
\* other User is as before, also when the body overwrites pendingTasks.
C13_UserUpdateFrame ==
    [][last'.op = "PutUser" =>
          /\ tasks' = tasks
          /\ DOMAIN users' = DOMAIN users
          /\ \A u \in DOMAIN users : u # last'.id => users'[u] = users[u]]_vars

\* A PUT /users/:id put into the addressed User's list a Task that is still
\* assigned to another User, who still lists it.
C13_Witness ==
    /\ last.op = "PutUser" /\ last.status = 200
    /\ \E u \in DOMAIN users, t \in DOMAIN tasks :
          /\ u # last.id /\ last.id \in DOMAIN users
          /\ t \in Pending(users, last.id)
          /\ tasks[t].assignedUser = u
          /\ t \in Pending(users, u)

\* C14: a list request (GET /users or GET /tasks) whose where, sort or
\* select is malformed JSON is answered 400 with empty data whatever else it
\* carries, and issues no store operation: the answer is the same when the
\* store would reject the first call made to it.
C14_MalformedJson ==
    \A q \in ListQueries, field \in {"where", "sort", "select"},
       fail \in FailInputs(1) :
        LET bad == [q EXCEPT ![field] = BadJson]
        IN /\ ListUsersResp(users, bad, fail).status = 400
           /\ ListUsersResp(users, bad, fail).data = EmptyData
           /\ ListTasksResp(tasks, bad, fail).status = 400
           /\ ListTasksResp(tasks, bad, fail).data = EmptyData

\* A list request over a store holding documents was answered 400.
C14_Witness ==
    /\ last.op \in {"ListUsers", "ListTasks"} /\ last.status = 400
    /\ DOMAIN users # {} /\ DOMAIN tasks # {}

\* C15: default limit.  A GET /tasks without limit (and without
\* count=true) returns at most 100 documents: the first 100 when more match.
\* A GET /users without limit returns every matching document.
C15_DefaultLimit ==
    \A q \in ListQueries :
        (/\ q.limit = "" /\ q.count # "true"
         /\ q.where \notin {BadJson, CastWhere}
         /\ JsonOk(q.sort) /\ JsonOk(q.select)) =>
            LET ru == ListUsersResp(users, q, 0)
                rt == ListTasksResp(tasks, q, 0)
                nu == Cardinality(DOMAIN users)
                nt == Cardinality(DOMAIN tasks)
            IN /\ ru.status = 200 /\ rt.status = 200
               /\ rt.data[1] = "array" /\ rt.data[2] <= 100
               /\ q.skip = "" =>
                     /\ ru.data = ListData(nu)
                     /\ rt.data = ListData(IF nt > 100 THEN 100 ELSE nt)

\* A GET /tasks came back with 100 documents from a store holding more than
\* a numeric limit or a skip of the model could cut down to 100.
C15_Witness ==
    /\ last.op = "ListTasks" /\ last.status = 200
    /\ last.data = ListData(DefaultTaskLimit)
    /\ Cardinality(DOMAIN tasks) = DefaultTaskLimit + MaxOver

\* C16: a list request whose skip or limit is not a number is answered
\* exactly as the same request without that parameter, on both routes.
C16_NonNumericAsDefault ==
    \A q \in ListQueries, field \in {"skip", "limit"}, fail \in FailInputs(1) :
        LET junk == [q EXCEPT ![field] = "abc"]
            absent == [q EXCEPT ![field] = ""]
        IN /\ ListUsersResp(users, junk, fail) = ListUsersResp(users, absent, fail)
           /\ ListTasksResp(tasks, junk, fail) = ListTasksResp(tasks, absent, fail)

EmailsDistinct(us) ==
    \A u1, u2 \in DOMAIN us : u1 # u2 => us[u1].email # us[u2].email

\* C17: email uniqueness.  No request leaves two Users with one email; a
\* POST /users, or a PUT /users/:id of an existing User, whose email is
\* held by another User is answered 400 "Email already exists." and leaves
\* the Users as they were.
C17_EmailUnique ==
    [][/\ EmailsDistinct(users')
       /\ \A body \in UserPostBodies :
             (/\ body.name # "" /\ body.email # ""
              /\ EmailTaken(users, body.email, "")
              /\ PostUser(body, 0)) =>
                /\ last'.status = 400
                /\ last'.message = "Email already exists."
                /\ users' = users
       /\ \A id \in DOMAIN users, body \in UserPutBodies :
             (/\ UserUpdateValid(body) /\ "email" \in DOMAIN body
              /\ EmailTaken(users, body.email, id)
              /\ PutUser(id, body, 0)) =>
                /\ last'.status = 400
                /\ last'.message = "Email already exists."
                /\ users' = users]_vars

\* A POST /users was refused for its email while a User exists.
C17_Witness ==
    /\ last.op = "PostUser" /\ last.message = "Email already exists."
    /\ DOMAIN users # {}

\* C18: a POST /users whose name or email is missing or empty is answered
\* 400, whether or not the store is available, and persists nothing: Users
\* and Tasks are as before the request.
C18_UserCreateRequired ==
    [][\A body \in UserPostBodies, fail \in FailInputs(1) :
          ((body.name = "" \/ body.email = "") /\ PostUser(body, fail)) =>
             /\ last'.status = 400
             /\ last'.data = EmptyData
             /\ users' = users
             /\ tasks' = tasks]_vars

\* A POST /users was refused for a missing field while the store holds a
\* User and a Task.
C18_Witness ==
    /\ last.op = "PostUser" /\ last.status = 400
    /\ last.message = "Validation Error: 'name' and 'email' are required fields."
    /\ DOMAIN users # {} /\ DOMAIN tasks # {}

\* C19: failure envelope.  The response to any request of the ten routes
\* has a status among 200, 201, 400, 404 and 500, and carries the empty
\* array as data whenever the status is 400, 404 or 500.
C19_FailureEnvelope ==
    last.op # "none" =>
        /\ last.status \in {200, 201, 400, 404, 500}
        /\ last.status \in {400, 404, 500} => last.data = EmptyData

\* GET /users answered a filter the store cannot cast with 404.
C19_Witness ==
    last.op = "ListUsers" /\ last.status = 404 /\ last.data = EmptyData

\* C20: restricted mirror invariant.  With clients that never supply
\* pendingTasks, assign only to the empty string or an existing User, and a
\* store that never fails, after every request each existing User u lists
\* exactly the Tasks that exist, are assigned to u and are not completed.
C20_RestrictedMirror ==
    \A u \in DOMAIN users, t \in Range(TaskIdSeq) :
        t \in Pending(users, u) <=> PendingAgainst(tasks, t, u)

\* Two Tasks were created and the second, after a reassigning or toggling
\* PUT, is listed by its assignee.
C20_Witness ==
    /\ last.op = "PutTask" /\ last.status = 200
    /\ nextTask = MaxTasksRestricted
    /\ \E u \in DOMAIN users : last.id \in Pending(users, u)

\* C21: no duplicates under concurrency.  Whatever the interleaving of the
\* store calls of task requests in flight, with clients that never write
\* pendingTasks, no User's pendingTasks holds a Task id more than once.
C21_NoDuplicates ==
    \A u \in DOMAIN users, t \in Range(TaskIdSeq) :
        Count(users[u].pendingTasks, t) <= 1

\* C22: a PUT /tasks/:id whose Task id resolved to no Task, at findById or,
\* after a DELETE in between, at findByIdAndUpdate, has 404 as its response
\* and has issued no User write.
C22_PutMissingTask ==
    \A p \in Procs :
        (procs[p].op = "PutTask" /\ procs[p].missing) =>
            /\ procs[p].resp.status = 404
            /\ procs[p].writes = <<>>

============================================================================
